---------------------------- MODULE Spec2Model ----------------------------
(***************************************************************************)
(* A model of src/main.py: a Flask process that keeps the latest           *)
(* earthquake (USGS) and cyclone (NOAA) record lists in two module         *)
(* globals, refreshes them from two APScheduler interval jobs and from two *)
(* initial calls in __main__, posts the cyclone records to a model service *)
(* from a third interval job, and serves three routes.                     *)
(*                                                                         *)
(* Python values and JSON values are modelled by one tagged encoding, so   *)
(* that None, strings, numbers, dicts and lists can be told apart:         *)
(*   None -> JNull, str -> JStr(<characters>), int -> JNum(n),             *)
(*   dict -> JObj(<function from keys>), list -> JArr(<sequence>).         *)
(* Python list OBJECTS (the things the globals and the locals refer to)    *)
(* live in a heap of cells; a variable holding a list holds a cell id.     *)
(***************************************************************************)
EXTENDS Naturals, Sequences, FiniteSets, TLC

(***************************************************************************)
(* Bounds of the model.                                                    *)
(***************************************************************************)
\* longest provider item list (features / activeStorms) in a response
MaxItems == 2
\* the longest place string the seismic provider reports
MaxPlaceLen == 4
\* number of concurrent request threads of the Flask server
NumClients == 1

(***************************************************************************)
(* JSON / Python values.                                                   *)
(***************************************************************************)
JNull == [type |-> "null"]
JStr(s) == [type |-> "string", chars |-> s]
JNum(n) == [type |-> "number", repr |-> n]
JObj(f) == [type |-> "object", members |-> f]
JArr(s) == [type |-> "array", items |-> s]
\* the body of a response whose .json() raises
InvalidJson == [type |-> "invalid"]

\* the sentinel "N/A" of main.py
NA == JStr(<<"N", "/", "A">>)

\* key in d
Has(d, k) == d.type = "object" /\ k \in DOMAIN d.members
\* dict.get(k, default): the stored value when the key is present (None for a
\* JSON null), the default only when the key is absent
Get(d, k, default) == IF k \in DOMAIN d.members THEN d.members[k] ELSE default
\* dict.get(k): the default is None
Get1(d, k) == Get(d, k, JNull)
\* Python truthiness of a value
Truthy(v) ==
  CASE v.type = "null" -> FALSE
    [] v.type = "number" -> v.repr # 0
    [] v.type = "string" -> Len(v.chars) > 0
    [] v.type = "array" -> Len(v.items) > 0
    [] v.type = "object" -> DOMAIN v.members # {}
    [] OTHER -> TRUE

(***************************************************************************)
(* str operations used on the place string: sep in s, s.split(sep)[-1].   *)
(***************************************************************************)
CommaSpace == <<",", " ">>

\* s starts with sep at position i (1-based)
MatchAt(s, sep, i) ==
  /\ i + Len(sep) - 1 <= Len(s)
  /\ \A j \in 1..Len(sep) : s[i + j - 1] = sep[j]
\* sep in s
Contains(s, sep) == \E i \in 1..Len(s) : MatchAt(s, sep, i)
\* s.split(sep): scan left to right, cutting at each non-overlapping match
RECURSIVE SplitFrom(_, _, _, _)
SplitFrom(s, sep, i, cur) ==
  IF i > Len(s) THEN <<cur>>
  ELSE IF MatchAt(s, sep, i)
       THEN <<cur>> \o SplitFrom(s, sep, i + Len(sep), <<>>)
       ELSE SplitFrom(s, sep, i + 1, Append(cur, s[i]))
Split(s, sep) == SplitFrom(s, sep, 1, <<>>)
\* xs[0]
first_piece(xs) == xs[1]
\* xs[-1]
Last(xs) == xs[Len(xs)]


(***************************************************************************)
(* Iteration and indexing of a Python value (for ... in v, v[i]).  An      *)
(* exception is modelled by its class name, "" meaning none was raised.    *)
(***************************************************************************)
NoException == ""

\* for x in v: TypeError unless v is a list, a str or a dict
IterException(v) ==
  IF v.type \in {"array", "string", "object"} THEN NoException ELSE "TypeError"
\* the elements for x in v yields: the items of a list, the characters of a
\* str, the keys of a dict (each key a str, kept as one token)
IterItems(v) ==
  CASE v.type = "array" -> v.items
    [] v.type = "string" -> [i \in 1..Len(v.chars) |-> JStr(<<v.chars[i]>>)]
    [] v.type = "object" ->
         LET ks == DOMAIN v.members
             RECURSIVE Keys(_)
             Keys(S) == IF S = {} THEN <<>>
                        ELSE LET k == CHOOSE k \in S : TRUE
                             IN <<JStr(<<k>>)>> \o Keys(S \ {k})
         IN Keys(ks)
    [] OTHER -> <<>>
\* v[i] for a 0-based integer index i
IndexException(v, i) ==
  CASE v.type = "array" -> IF i < Len(v.items) THEN NoException ELSE "IndexError"
    [] v.type = "string" -> IF i < Len(v.chars) THEN NoException ELSE "IndexError"
    [] v.type = "object" -> "KeyError"
    [] OTHER -> "TypeError"
Index(v, i) ==
  IF v.type = "array" THEN v.items[i + 1] ELSE JStr(<<v.chars[i + 1]>>)
\* v[k] for a str key k
SubscriptException(v, k) ==
  CASE v.type = "object" -> IF k \in DOMAIN v.members THEN NoException ELSE "KeyError"
    [] OTHER -> "TypeError"
\* v.get(...): only a dict has the method
GetException(v) == IF v.type = "object" THEN NoException ELSE "AttributeError"
\* the first exception of a sequence of evaluation steps
FirstException(es) ==
  IF \E i \in 1..Len(es) : es[i] # NoException
  THEN es[CHOOSE i \in 1..Len(es) :
            es[i] # NoException /\ \A j \in 1..(i - 1) : es[j] = NoException]
  ELSE NoException

(***************************************************************************)
(* fetch_earthquake_data, the body of the loop over data["features"]       *)
(* (lines 40-94).                                                          *)
(***************************************************************************)
\* lines 45-49: place = properties.get("place", "N/A")
Place(properties) == Get(properties, "place", NA)
\* line 46: ", " in place
PlaceHasSeparator(place) ==
  CASE place.type = "string" -> Contains(place.chars, CommaSpace)
    [] place.type = "array" -> \E i \in 1..Len(place.items) : place.items[i] = JStr(CommaSpace)
    [] OTHER -> FALSE
PlaceException(place) ==
  CASE place.type \in {"null", "number", "invalid"} -> "TypeError"
    [] place.type = "array" /\ PlaceHasSeparator(place) -> "AttributeError"
    [] OTHER -> NoException
\* lines 46-49: the region/country
Region(place) ==
  IF PlaceHasSeparator(place)
  THEN JStr(Last(Split(place.chars, CommaSpace)))
  ELSE place

\* the exception one feature raises in the loop body, in evaluation order
FeatureException(feature) ==
  LET e41 == SubscriptException(feature, "properties")
      e42a == IF e41 = NoException THEN SubscriptException(feature, "geometry") ELSE e41
      e42b == IF e42a = NoException
              THEN SubscriptException(feature.members["geometry"], "coordinates")
              ELSE e42a
  IN IF e42b # NoException THEN e42b
     ELSE LET properties == feature.members["properties"]
              geometry == feature.members["geometry"].members["coordinates"]
          IN FirstException(<<
               GetException(properties),
               IF properties.type = "object"
                 THEN PlaceException(Place(properties)) ELSE NoException,
               IndexException(geometry, 1),
               IndexException(geometry, 0),
               IndexException(geometry, 2) >>)

\* lines 52-92: earthquake_info
earthquake_info(feature) ==
  LET properties == feature.members["properties"]
      geometry == feature.members["geometry"].members["coordinates"]
      place == Place(properties)
  IN JObj([
       id |-> Get1(feature, "id"),
       time |-> Get1(properties, "time"),
       updated |-> Get1(properties, "updated"),
       magnitude |-> Get1(properties, "mag"),
       mag_type |-> Get1(properties, "magType"),
       magnitude_error |-> Get(properties, "magError", NA),
       latitude |-> Index(geometry, 1),
       longitude |-> Index(geometry, 0),
       depth_km |-> Index(geometry, 2),
       depth_error |-> Get(properties, "depthError", NA),
       location |-> place,
       region |-> Region(place),
       seismic_stations |-> Get(properties, "nst", NA),
       rms |-> Get(properties, "rms", NA),
       gap |-> Get(properties, "gap", NA),
       dmin |-> Get(properties, "dmin", NA),
       focal_mechanism |-> JObj([
         strike |-> Get(properties, "strike", NA),
         dip |-> Get(properties, "dip", NA),
         rake |-> Get(properties, "rake", NA) ]),
       tsunami_alert |-> IF Truthy(Get1(properties, "tsunami")) THEN JNum(1) ELSE JNum(0),
       tsunami_warning |-> Get(properties, "alert", NA),
       event_type |-> Get1(properties, "type"),
       status |-> Get1(properties, "status"),
       url |-> Get1(properties, "url") ])

(***************************************************************************)
(* fetch_cyclone_data, the body of the loop over the active storms         *)
(* (lines 113-121).                                                        *)
(***************************************************************************)
StormException(storm) == GetException(storm)

\* lines 114-120: storm_info
storm_info(storm) ==
  JObj([
    ISO_TIME |-> Get1(storm, "lastUpdate"),
    LAT |-> Get1(storm, "latitude_numeric"),
    LON |-> Get1(storm, "longitude_numeric"),
    STORM_SPEED |-> Get1(storm, "movementSpeed"),
    STORM_DIR |-> Get1(storm, "movementDir") ])

(***************************************************************************)
(* What the providers can answer.  requests.get either raises (transport   *)
(* error) or returns a response with a status code and a body.             *)
(***************************************************************************)
\* line 36 / line 109: the only status the fetch jobs accept
HttpOk == 200
\* a status the providers answer when they fail
HttpServerError == 500

TransportError == [exception |-> "ConnectionError", status_code |-> 0, body |-> InvalidJson]
Http(status, body) == [exception |-> NoException, status_code |-> status, body |-> body]

\* a feature with every key the job reads, its place holding the separator
FeatFull ==
  JObj([
    id |-> JStr(<<"e", "1">>),
    properties |-> JObj([
      place |-> JStr(<<"S", ",", " ", "C", "A">>),
      time |-> JNum(100), updated |-> JNum(101),
      mag |-> JNum(5), magType |-> JStr(<<"m", "b">>), magError |-> JNum(1),
      depthError |-> JNum(2), nst |-> JNum(9), rms |-> JNum(1), gap |-> JNum(30),
      dmin |-> JNum(1), strike |-> JNum(7), dip |-> JNum(8), rake |-> JNum(9),
      tsunami |-> JNum(1), alert |-> JStr(<<"r", "e", "d">>),
      type |-> JStr(<<"e", "q">>), status |-> JStr(<<"r", "e", "v">>),
      url |-> JStr(<<"u", "1">>) ]),
    geometry |-> JObj([coordinates |-> JArr(<<JNum(10), JNum(20), JNum(5)>>)]) ])
\* a feature lacking its id and every property but a place without separator
FeatSparse ==
  JObj([
    properties |-> JObj([place |-> JStr(<<"P", "O">>)]),
    geometry |-> JObj([coordinates |-> JArr(<<JNum(30), JNum(40), JNum(6)>>)]) ])
\* a feature whose place is null
FeatNullPlace ==
  JObj([
    id |-> JStr(<<"e", "3">>),
    properties |-> JObj([place |-> JNull, mag |-> JNum(4)]),
    geometry |-> JObj([coordinates |-> JArr(<<JNum(10), JNum(20), JNum(5)>>)]) ])
GoodFeatures == {FeatFull, FeatSparse}
BadFeatures == {FeatNullPlace}

StormFull ==
  JObj([
    lastUpdate |-> JStr(<<"t", "1">>),
    latitude_numeric |-> JNum(15), longitude_numeric |-> JNum(60),
    movementSpeed |-> JNum(12), movementDir |-> JNum(270) ])
\* a storm lacking its movement
StormSparse ==
  JObj([
    lastUpdate |-> JStr(<<"t", "2">>),
    latitude_numeric |-> JNum(16), longitude_numeric |-> JNum(61) ])
GoodStorms == {StormFull, StormSparse}
\* a storm that is null
BadStorms == {JNull}

\* the sequences over S of length at most n
SeqsUpTo(S, n) == UNION {[1..k -> S] : k \in 0..n}
\* well-formed item lists, and lists whose last item is malformed
ItemLists(good, bad) ==
  SeqsUpTo(good, MaxItems)
    \cup {Append(l, b) : l \in SeqsUpTo(good, MaxItems - 1), b \in bad}

EqBodies ==
  {InvalidJson, JObj([type |-> JStr(<<"F", "C">>)])}
    \cup {JObj([type |-> JStr(<<"F", "C">>), features |-> JArr(l)]) :
            l \in ItemLists(GoodFeatures, BadFeatures)}
CyBodies ==
  {InvalidJson, JObj([context |-> JStr(<<"T", "C", "M">>)])}
    \cup {JObj([activeStorms |-> JArr(l)]) : l \in ItemLists(GoodStorms, BadStorms)}

Sources == {"earthquake", "cyclone"}
\* every answer of the provider of src
Responses(src) ==
  {TransportError, Http(HttpServerError, InvalidJson)}
    \cup {Http(HttpOk, b) : b \in IF src = "earthquake" THEN EqBodies ELSE CyBodies}
\* the answers of a provider that is down, fails, or reports one complete item
Answers(src) ==
  {TransportError, Http(HttpServerError, InvalidJson),
   Http(HttpOk, IF src = "earthquake"
                THEN JObj([type |-> JStr(<<"F", "C">>), features |-> JArr(<<FeatFull>>)])
                ELSE JObj([activeStorms |-> JArr(<<StormFull>>)]))}

(***************************************************************************)
(* The fetch jobs between the response and the loop (lines 36-40 and       *)
(* 109-113).                                                               *)
(***************************************************************************)
\* response.json()
JsonException(resp) == IF resp.body = InvalidJson THEN "JSONDecodeError" ELSE NoException
\* the value the for loop iterates: data["features"], and
\* response.json().get("activeStorms", [])
LoopValue(src, resp) ==
  IF src = "earthquake"
  THEN resp.body.members["features"]
  ELSE Get(resp.body, "activeStorms", JArr(<<>>))
\* the exception raised before the first iteration of the loop
PreLoopException(src, resp) ==
  IF resp.exception # NoException THEN resp.exception
  ELSE IF JsonException(resp) # NoException THEN JsonException(resp)
  ELSE LET e == IF src = "earthquake"
                THEN SubscriptException(resp.body, "features")
                ELSE GetException(resp.body)
       IN IF e # NoException THEN e ELSE IterException(LoopValue(src, resp))
\* the provider items the loop visits
Items(src, resp) == IterItems(LoopValue(src, resp))
ItemException(src, item) ==
  IF src = "earthquake" THEN FeatureException(item) ELSE StormException(item)
Normalize(src, item) ==
  IF src = "earthquake" THEN earthquake_info(item) ELSE storm_info(item)
\* one normalized record per provider item, in provider order
NormalizeAll(src, items) == [i \in 1..Len(items) |-> Normalize(src, items[i])]

(***************************************************************************)
(* The state of the process.                                               *)
(***************************************************************************)
VARIABLES
  mainpc,                  \* where the main thread is: "boot", "main_eq", "main_cy", "serving"
  started,                 \* scheduler.start() has been called
  latest_earthquake_data,  \* the global: the list object it refers to
  latest_cyclone_data,     \* the global: the list object it refers to
  heap,                    \* the contents of each list object
  fpc,                     \* per fetch invocation: "idle", "request", "loop", "returned"
  fresp,                   \* per fetch invocation: its local response
  fext,                    \* per fetch invocation: its local extracted_data (a list object)
  flog,                    \* per fetch invocation: the line it printed
  dpc,                     \* per dispatch invocation: "idle", "check", "iter", "next", "post", "returned"
  diter,                   \* per dispatch invocation: the list object its for loop iterates
  didx,                    \* per dispatch invocation: the position of the loop's iterator
  dsent,                   \* per dispatch invocation: the records it has posted, in order
  dout,                    \* per dispatch invocation: the lines it printed, in order
  cpc,                     \* per request thread: "idle", "jsonify", "send", "responded"
  croute,                  \* per request thread: the route it serves
  cref,                    \* per request thread: the list object handed to jsonify
  cbody,                   \* per request thread: the body of its response
  installed,               \* history: per source, the records of the last completed replace
  cwant,                   \* history: per request thread, installed when it read the global
  replaced,                \* history: per source, a fetch has succeeded (line 96 / 123 has run)
  lastget,                 \* history: the route and body of the last get answered from the
                           \* current snapshot, and whether the get before it was answered
                           \* from the same one; forgotten when its source is replaced
  dwant                    \* history: per dispatch invocation, installed when line 136 read the global

vars ==
  <<mainpc, started, latest_earthquake_data, latest_cyclone_data, heap,
    fpc, fresp, fext, flog, dpc, diter, didx, dsent, dout,
    cpc, croute, cref, cbody, installed, cwant, dwant, replaced, lastget>>

\* the three jobs of lines 145-147
Jobs == {"jobE", "jobC", "jobD"}
\* who can run a fetch job: the main thread (lines 165-166) and the two fetch jobs
Runners == {"main", "jobE", "jobC"}
\* request threads of the Flask server
Clients == 1..NumClients
\* who can run send_data_to_model: job jobD (0) and every request thread
Dispatchers == 0..NumClients
Routes == {"get_earthquake_data", "get_cyclone_data", "send_to_model"}

\* APScheduler's default max_instances of a job added without one (lines 145-147)
MaxInstances == 1

\* list objects: the two globals', one per fetch invocation, one per reader
NumCells == 2 + Cardinality(Runners) + Cardinality(Dispatchers) + NumClients
Cells == 1..NumCells
NoCell == 0
NoResponse == [exception |-> "none", status_code |-> 0, body |-> InvalidJson]
NoBody == [type |-> "none"]
NoGet == [route |-> "", body |-> NoBody, again |-> FALSE]
\* the source a get route serves (lines 151-157)
RouteSource(route) == IF route = "get_earthquake_data" THEN "earthquake" ELSE "cyclone"

\* the source a fetch invocation works on
Source(r) ==
  CASE r = "jobE" -> "earthquake"
    [] r = "jobC" -> "cyclone"
    [] OTHER -> IF mainpc = "main_eq" THEN "earthquake" ELSE "cyclone"
Latest(src) ==
  IF src = "earthquake" THEN latest_earthquake_data ELSE latest_cyclone_data

Range(f) == {f[x] : x \in DOMAIN f}
\* the order in which the variables that hold a list object are looked at
RunnerOrder == <<"main", "jobE", "jobC">>
RefSeq(le, lc, fx, di, cr) ==
  <<le, lc>> \o [i \in 1..Len(RunnerOrder) |-> fx[RunnerOrder[i]]]
             \o [i \in 1..Cardinality(Dispatchers) |-> di[i - 1]]
             \o [i \in 1..NumClients |-> cr[i]]
\* the list objects something still refers to
Live ==
  Range(RefSeq(latest_earthquake_data, latest_cyclone_data, fext, diter, cref)) \ {NoCell}
\* a list object nothing refers to (its cell is empty)
FreshCell == CHOOSE c \in Cells \ Live : TRUE
\* main.py never looks at the identity of a list object (no "is", no id()):
\* two heaps that differ in the numbering of their cells are the same state.
\* Renumber gives cell c the rank of its first holder in RefSeq.
Renumber(refs, c) ==
  IF c = NoCell THEN NoCell
  ELSE LET first == CHOOSE i \in 1..Len(refs) :
                      refs[i] = c /\ \A j \in 1..(i - 1) : refs[j] # c
       IN Cardinality({refs[j] : j \in 1..first} \ {NoCell})
\* the references and the heap after a step: the list objects nothing refers
\* to any more are reclaimed, the others renumbered
Install(le, lc, fx, di, cr, h) ==
  \E refs \in {RefSeq(le, lc, fx, di, cr)} :
    \E rank \in {[c \in Range(refs) \cup {NoCell} |-> Renumber(refs, c)]} :
      LET live == Range(refs) \ {NoCell}
      IN /\ latest_earthquake_data' = rank[le]
         /\ latest_cyclone_data' = rank[lc]
         /\ fext' = [r \in Runners |-> rank[fx[r]]]
         /\ diter' = [d \in Dispatchers |-> rank[di[d]]]
         /\ cref' = [c \in Clients |-> rank[cr[c]]]
         /\ heap' = [k \in Cells |->
                      IF \E c \in live : rank[c] = k
                      THEN h[CHOOSE c \in live : rank[c] = k]
                      ELSE <<>>]

refVars == <<latest_earthquake_data, latest_cyclone_data, fext, diter, cref, heap>>
fetchVars == <<fpc, fresp, flog>>
dispVars == <<dpc, didx, dsent, dout, dwant>>
clientVars == <<cpc, croute, cbody, cwant>>

\* lines 16-17: two empty lists; nothing runs yet
Init ==
  /\ mainpc = "boot"
  /\ started = FALSE
  /\ latest_earthquake_data = 1
  /\ latest_cyclone_data = 2
  /\ heap = [c \in Cells |-> <<>>]
  /\ fpc = [r \in Runners |-> "idle"]
  /\ fresp = [r \in Runners |-> NoResponse]
  /\ fext = [r \in Runners |-> NoCell]
  /\ flog = [r \in Runners |-> ""]
  /\ dpc = [d \in Dispatchers |-> "idle"]
  /\ diter = [d \in Dispatchers |-> NoCell]
  /\ didx = [d \in Dispatchers |-> 0]
  /\ dsent = [d \in Dispatchers |-> <<>>]
  /\ dout = [d \in Dispatchers |-> <<>>]
  /\ cpc = [c \in Clients |-> "idle"]
  /\ croute = [c \in Clients |-> ""]
  /\ cref = [c \in Clients |-> NoCell]
  /\ cbody = [c \in Clients |-> NoBody]
  /\ installed = [s \in Sources |-> <<>>]
  /\ replaced = [s \in Sources |-> FALSE]
  /\ lastget = NoGet
  /\ cwant = [c \in Clients |-> <<>>]
  /\ dwant = [d \in Dispatchers |-> <<>>]

\* the process runs: an exception that leaves the main thread ends it, and the
\* scheduler's daemon threads with it
Alive == mainpc # "crashed"

(***************************************************************************)
(* The main thread (lines 144-148, then 164-167).                          *)
(***************************************************************************)
\* lines 144-148: the three jobs are added and the scheduler is started
MainStartScheduler ==
  /\ mainpc = "boot"
  /\ mainpc' = "main_eq"
  /\ started' = TRUE
  /\ UNCHANGED <<refVars, installed, replaced, lastget, fetchVars, dispVars, clientVars>>

\* line 165 / line 166: the main thread calls a fetch job; requests.get is under way
MainCallFetch ==
  /\ mainpc \in {"main_eq", "main_cy"}
  /\ fpc["main"] = "idle"
  /\ fpc' = [fpc EXCEPT !["main"] = "request"]
  /\ UNCHANGED <<mainpc, started, refVars, installed, replaced, lastget, fresp, flog, dispVars, clientVars>>

\* the fetch job returns to line 166, or to line 167 where app.run starts serving
MainFetchReturn ==
  /\ mainpc \in {"main_eq", "main_cy"}
  /\ fpc["main"] = "returned"
  /\ mainpc' = IF mainpc = "main_eq" THEN "main_cy" ELSE "serving"
  /\ fpc' = [fpc EXCEPT !["main"] = "idle"]
  /\ flog' = [flog EXCEPT !["main"] = ""]
  /\ UNCHANGED <<started, refVars, installed, replaced, lastget, fresp, dispVars, clientVars>>

(***************************************************************************)
(* The scheduler (lines 144-148): three interval jobs of ten minutes, run  *)
(* by a pool of threads, at most MaxInstances of a job at a time.          *)
(***************************************************************************)
\* the main thread is blocked: in requests.get, or in app.run
MainBlocked == mainpc = "serving" \/ fpc["main"] = "request"
Instances(j) ==
  IF j = "jobD" THEN (IF dpc[0] = "idle" THEN 0 ELSE 1)
  ELSE (IF fpc[j] = "idle" THEN 0 ELSE 1)

\* ten minutes have passed since job j was last due, which they only can
\* while the main thread is blocked: a run of j is submitted to the pool.  When
\* MaxInstances runs of j are still under way the scheduler skips the run,
\* which changes nothing.
Tick(j) ==
  /\ Alive /\ started
  /\ MainBlocked
  /\ Instances(j) < MaxInstances
  /\ IF j = "jobD"
     THEN dpc' = [dpc EXCEPT ![0] = "check"] /\ UNCHANGED fpc
     ELSE fpc' = [fpc EXCEPT ![j] = "request"] /\ UNCHANGED dpc
  /\ UNCHANGED <<mainpc, started, refVars, installed, replaced, lastget, fresp, flog,
                 didx, dsent, dout, dwant, clientVars>>

\* a run of a job ends and its pool thread is free again
JobFinish(j) ==
  /\ Alive
  /\ IF j = "jobD"
     THEN /\ dpc[0] = "returned"
          /\ dpc' = [dpc EXCEPT ![0] = "idle"]
          /\ dsent' = [dsent EXCEPT ![0] = <<>>]
          /\ dout' = [dout EXCEPT ![0] = <<>>]
          /\ dwant' = [dwant EXCEPT ![0] = <<>>]
          /\ UNCHANGED <<fpc, flog>>
     ELSE /\ fpc[j] = "returned"
          /\ fpc' = [fpc EXCEPT ![j] = "idle"]
          /\ flog' = [flog EXCEPT ![j] = ""]
          /\ UNCHANGED <<dpc, dsent, dout, dwant>>
  /\ UNCHANGED <<mainpc, started, refVars, installed, replaced, lastget, fresp, didx, clientVars>>

(***************************************************************************)
(* fetch_earthquake_data (lines 19-101) and fetch_cyclone_data (lines      *)
(* 103-128), run by r on Source(r).                                        *)
(***************************************************************************)
\* a fetch job without its except clause
fetch_no_except(exc) == FALSE
\* line 100 / line 127: except Exception catches whatever the try block raises
fetch_except(exc) == TRUE

\* the fetch job builds its list in the list object the global refers to
build_in_place(published, fresh) == published
\* line 38 / line 111: extracted_data = [] is a new list object, not the
\* published one
extracted_data(published, fresh) == fresh

\* a failed fetch leaves its source with a new empty list
clear_on_failure(published, fresh) == fresh
\* lines 98-101 / 125-128: the failure branches only print; the global keeps
\* the list object it referred to (fresh: a new empty list object)
after_failure(published, fresh) == published

\* the references after the invocation of r failed: its local is gone
FailInstall(r) ==
  Install(IF Source(r) = "earthquake"
          THEN after_failure(latest_earthquake_data, FreshCell)
          ELSE latest_earthquake_data,
          IF Source(r) = "cyclone"
          THEN after_failure(latest_cyclone_data, FreshCell)
          ELSE latest_cyclone_data,
          [fext EXCEPT ![r] = NoCell], diter, cref, heap)

\* the invocation of r ends with exception exc raised inside its try block:
\* caught, it prints and returns; uncaught, it ends the main thread, and a
\* pool thread's run ends with the scheduler logging it
FetchRaise(r, exc) ==
  IF fetch_except(exc)
  THEN /\ fpc' = [fpc EXCEPT ![r] = "returned"]
       /\ flog' = [flog EXCEPT ![r] = exc]
       /\ UNCHANGED mainpc
  ELSE IF r = "main"
       THEN /\ mainpc' = "crashed"
            /\ fpc' = [fpc EXCEPT ![r] = "idle"]
            /\ flog' = [flog EXCEPT ![r] = ""]
       ELSE /\ fpc' = [fpc EXCEPT ![r] = "returned"]
            /\ flog' = [flog EXCEPT ![r] = "job raised"]
            /\ UNCHANGED mainpc

\* requests.get returns one of answers, or raises; lines 36-40 / 109-113 up
\* to the first iteration of the loop
FetchRespond(r, answers) ==
  /\ Alive /\ fpc[r] = "request"
  /\ \E resp \in answers :
       IF resp.exception = NoException /\ resp.status_code # HttpOk
       THEN \* lines 98-99 / 125-126
            /\ fpc' = [fpc EXCEPT ![r] = "returned"]
            /\ flog' = [flog EXCEPT ![r] = "http error"]
            /\ FailInstall(r)
            /\ UNCHANGED <<mainpc, fresp>>
       ELSE IF PreLoopException(Source(r), resp) # NoException
       THEN /\ FetchRaise(r, PreLoopException(Source(r), resp))
            /\ FailInstall(r)
            /\ UNCHANGED fresp
       ELSE \E cell \in {extracted_data(Latest(Source(r)), FreshCell)} :
               /\ fpc' = [fpc EXCEPT ![r] = "loop"]
               /\ fresp' = [fresp EXCEPT ![r] = resp]
               /\ Install(latest_earthquake_data, latest_cyclone_data,
                          [fext EXCEPT ![r] = cell], diter, cref,
                          [heap EXCEPT ![cell] = <<>>])
               /\ UNCHANGED <<mainpc, flog>>
  /\ UNCHANGED <<started, installed, replaced, lastget, dispVars, clientVars>>

\* one iteration of the loop (lines 40-94 / 113-121): the next provider item
\* is normalized and appended to extracted_data, or raises
FetchLoop(r) ==
  /\ Alive /\ fpc[r] = "loop"
  /\ Len(heap[fext[r]]) < Len(Items(Source(r), fresp[r]))
  /\ LET item == Items(Source(r), fresp[r])[Len(heap[fext[r]]) + 1]
         exc == ItemException(Source(r), item)
     IN IF exc # NoException
        THEN /\ FetchRaise(r, exc)
             /\ fresp' = [fresp EXCEPT ![r] = NoResponse]
             /\ FailInstall(r)
        ELSE /\ heap' = [heap EXCEPT ![fext[r]] = Append(@, Normalize(Source(r), item))]
             /\ UNCHANGED <<mainpc, fetchVars,
                            latest_earthquake_data, latest_cyclone_data, fext, diter, cref>>
  /\ UNCHANGED <<started, installed, replaced, lastget, dispVars, clientVars>>

\* a fetch function that assigned the global of the other source
other_global(src) == IF src = "earthquake" THEN "cyclone" ELSE "earthquake"
\* line 21 / line 105 with line 96 / line 123: the global a fetch function
\* of source src declares and assigns is the one of its own source
published_global(src) == src

\* the loop is exhausted: line 96 / line 123 assigns the global, line 97 /
\* line 124 prints
FetchPublish(r) ==
  /\ Alive /\ fpc[r] = "loop"
  /\ Len(heap[fext[r]]) >= Len(Items(Source(r), fresp[r]))
  /\ \E target \in {published_global(Source(r))} :
       /\ Install(IF target = "earthquake" THEN fext[r] ELSE latest_earthquake_data,
                  IF target = "cyclone" THEN fext[r] ELSE latest_cyclone_data,
                  [fext EXCEPT ![r] = NoCell], diter, cref, heap)
       /\ installed' = [installed EXCEPT ![target] =
                          NormalizeAll(Source(r), Items(Source(r), fresp[r]))]
       /\ replaced' = [replaced EXCEPT ![target] = TRUE]
       /\ lastget' = IF RouteSource(lastget.route) = target /\ lastget.route # ""
                     THEN NoGet ELSE lastget
  /\ fpc' = [fpc EXCEPT ![r] = "returned"]
  /\ flog' = [flog EXCEPT ![r] = "updated"]
  /\ fresp' = [fresp EXCEPT ![r] = NoResponse]
  /\ UNCHANGED <<mainpc, started, dispVars, clientVars>>

(***************************************************************************)
(* send_data_to_model (lines 130-141), run by d: the job's pool thread     *)
(* (d = 0) or the request thread d serving /send_to_model.                 *)
(***************************************************************************)
\* send_data_to_model without its except clause
send_no_except(exc) == FALSE
\* line 140: except Exception catches whatever requests.post raises
send_except(exc) == TRUE

\* what requests.post can do: raise, or return a response of some status
PostResponses == {TransportError, Http(HttpOk, InvalidJson), Http(HttpServerError, InvalidJson)}
\* the line printed for one record: line 139 with the status, or line 141
Printed(resp) ==
  IF resp.exception = NoException
  THEN [printed |-> "sent", status_code |-> resp.status_code]
  ELSE [printed |-> "error", status_code |-> 0]
\* the mark an exception leaves that send_data_to_model did not catch
Uncaught == [printed |-> "raised", status_code |-> 0]
\* line 133
NoData == [printed |-> "no data", status_code |-> 0]

\* lines 132-134: the global is read and tested; an empty list returns
DispatchCheck(d) ==
  /\ Alive /\ dpc[d] = "check"
  /\ IF Len(heap[latest_cyclone_data]) = 0
     THEN /\ dpc' = [dpc EXCEPT ![d] = "returned"]
          /\ dout' = [dout EXCEPT ![d] = <<NoData>>]
     ELSE /\ dpc' = [dpc EXCEPT ![d] = "iter"]
          /\ UNCHANGED dout
  /\ UNCHANGED <<mainpc, started, refVars, installed, replaced, lastget, fetchVars,
                 didx, dsent, dwant, clientVars>>

\* line 136: the global is read again; the for loop iterates that list object
DispatchIter(d) ==
  /\ Alive /\ dpc[d] = "iter"
  /\ dpc' = [dpc EXCEPT ![d] = "next"]
  /\ Install(latest_earthquake_data, latest_cyclone_data, fext,
             [diter EXCEPT ![d] = latest_cyclone_data], cref, heap)
  /\ didx' = [didx EXCEPT ![d] = 0]
  /\ dwant' = [dwant EXCEPT ![d] = installed["cyclone"]]
  /\ UNCHANGED <<mainpc, started, installed, replaced, lastget, fetchVars, dsent, dout, clientVars>>

\* line 136: the iterator yields the next record and line 138 posts it, or
\* the list is exhausted and the function returns
DispatchNext(d) ==
  /\ Alive /\ dpc[d] = "next"
  /\ IF didx[d] < Len(heap[diter[d]])
     THEN /\ dpc' = [dpc EXCEPT ![d] = "post"]
          /\ didx' = [didx EXCEPT ![d] = @ + 1]
          /\ dsent' = [dsent EXCEPT ![d] = Append(@, heap[diter[d]][didx[d] + 1])]
          /\ UNCHANGED refVars
     ELSE /\ dpc' = [dpc EXCEPT ![d] = "returned"]
          /\ didx' = [didx EXCEPT ![d] = 0]
          /\ Install(latest_earthquake_data, latest_cyclone_data, fext,
                     [diter EXCEPT ![d] = NoCell], cref, heap)
          /\ UNCHANGED dsent
  /\ UNCHANGED <<mainpc, started, installed, replaced, lastget, fetchVars, dout, dwant, clientVars>>

\* lines 138-141: requests.post returns (any status) or raises; an exception
\* that is not caught ends the loop and the function
DispatchPost(d) ==
  /\ Alive /\ dpc[d] = "post"
  /\ \E resp \in PostResponses :
       IF resp.exception = NoException \/ send_except(resp.exception)
       THEN /\ dpc' = [dpc EXCEPT ![d] = "next"]
            /\ dout' = [dout EXCEPT ![d] = Append(@, Printed(resp))]
            /\ UNCHANGED <<refVars, didx>>
       ELSE /\ dpc' = [dpc EXCEPT ![d] = "returned"]
            /\ dout' = [dout EXCEPT ![d] = Append(@, Uncaught)]
            /\ didx' = [didx EXCEPT ![d] = 0]
            /\ Install(latest_earthquake_data, latest_cyclone_data, fext,
                       [diter EXCEPT ![d] = NoCell], cref, heap)
  /\ UNCHANGED <<mainpc, started, installed, replaced, lastget, fetchVars, dsent, dwant, clientVars>>

(***************************************************************************)
(* The routes (lines 151-162), served by the request threads once app.run  *)
(* is serving.                                                             *)
(***************************************************************************)
\* line 162: the body of the response of /send_to_model
SentMessage == JObj([message |-> JStr(<<"Cyclone data sent to model.">>)])
\* the response to a request whose handler raised
InternalServerError == JObj([error |-> JNum(HttpServerError)])

\* a request arrives at a free request thread; a get route reads its global
\* (line 153 / line 157), /send_to_model calls send_data_to_model (line 161)
ClientRequest(c, route) ==
  /\ Alive /\ mainpc = "serving"
  /\ cpc[c] = "idle"
  /\ croute' = [croute EXCEPT ![c] = route]
  /\ IF route = "send_to_model"
     THEN /\ cpc' = [cpc EXCEPT ![c] = "send"]
          /\ dpc' = [dpc EXCEPT ![c] = "check"]
          /\ UNCHANGED <<refVars, cwant>>
     ELSE /\ cpc' = [cpc EXCEPT ![c] = "jsonify"]
          /\ Install(latest_earthquake_data, latest_cyclone_data, fext, diter,
                     [cref EXCEPT ![c] = Latest(RouteSource(route))], heap)
          /\ cwant' = [cwant EXCEPT ![c] = installed[RouteSource(route)]]
          /\ UNCHANGED dpc
  /\ UNCHANGED <<mainpc, started, installed, replaced, lastget, fetchVars,
                 didx, dsent, dout, dwant, cbody>>

\* line 153 / line 157: jsonify serializes the list object it was handed
ClientJsonify(c) ==
  /\ Alive /\ cpc[c] = "jsonify"
  /\ cpc' = [cpc EXCEPT ![c] = "responded"]
  /\ cbody' = [cbody EXCEPT ![c] = JArr(heap[cref[c]])]
  /\ Install(latest_earthquake_data, latest_cyclone_data, fext, diter,
             [cref EXCEPT ![c] = NoCell], heap)
  /\ lastget' = IF cref[c] = Latest(RouteSource(croute[c]))
                THEN [route |-> croute[c], body |-> JArr(heap[cref[c]]),
                      again |-> lastget.route = croute[c]]
                ELSE lastget
  /\ UNCHANGED <<mainpc, started, installed, replaced, fetchVars, dispVars, croute, cwant>>

\* line 162: send_data_to_model has returned and the route answers
TriggerRespond(c) ==
  /\ Alive /\ cpc[c] = "send" /\ dpc[c] = "returned"
  /\ cpc' = [cpc EXCEPT ![c] = "responded"]
  /\ dpc' = [dpc EXCEPT ![c] = "idle"]
  /\ cbody' = [cbody EXCEPT ![c] =
                 IF dout[c] # <<>> /\ Last(dout[c]) = Uncaught
                 THEN InternalServerError ELSE SentMessage]
  /\ UNCHANGED <<mainpc, started, refVars, installed, replaced, lastget, fetchVars,
                 didx, dsent, dout, dwant, croute, cwant>>

\* the response is delivered and the request thread is free again
ClientDone(c) ==
  /\ Alive /\ cpc[c] = "responded"
  /\ cpc' = [cpc EXCEPT ![c] = "idle"]
  /\ croute' = [croute EXCEPT ![c] = ""]
  /\ cbody' = [cbody EXCEPT ![c] = NoBody]
  /\ cwant' = [cwant EXCEPT ![c] = <<>>]
  /\ dsent' = [dsent EXCEPT ![c] = <<>>]
  /\ dout' = [dout EXCEPT ![c] = <<>>]
  /\ dwant' = [dwant EXCEPT ![c] = <<>>]
  /\ UNCHANGED <<mainpc, started, refVars, installed, replaced, lastget, fetchVars, dpc, didx>>

(***************************************************************************)
(* The whole process.                                                      *)
(***************************************************************************)
Next ==
  \/ MainStartScheduler
  \/ MainCallFetch
  \/ MainFetchReturn
  \/ \E j \in Jobs : Tick(j)
  \/ \E j \in Jobs : JobFinish(j)
  \/ \E r \in Runners : FetchRespond(r, Answers(Source(r)))
  \/ \E r \in Runners : FetchLoop(r)
  \/ \E r \in Runners : FetchPublish(r)
  \/ \E d \in Dispatchers : DispatchCheck(d)
  \/ \E d \in Dispatchers : DispatchIter(d)
  \/ \E d \in Dispatchers : DispatchNext(d)
  \/ \E d \in Dispatchers : DispatchPost(d)
  \/ \E c \in Clients, route \in Routes : ClientRequest(c, route)
  \/ \E c \in Clients : ClientJsonify(c)
  \/ \E c \in Clients : TriggerRespond(c)
  \/ \E c \in Clients : ClientDone(c)

Spec == Init /\ [][Next]_vars

(***************************************************************************)
(* The cyclone store with every answer of its provider: job jobC, and one   *)
(* request thread reading the store and triggering the dispatcher.  The     *)
(* main thread's initial runs find the providers down.                      *)
(***************************************************************************)
CycloneRoutes == {"get_cyclone_data", "send_to_model"}
CycloneNext ==
  \/ MainStartScheduler
  \/ MainCallFetch
  \/ MainFetchReturn
  \/ Tick("jobC")
  \/ JobFinish("jobC")
  \/ FetchRespond("main", {TransportError})
  \/ FetchRespond("jobC", Responses("cyclone"))
  \/ FetchLoop("jobC")
  \/ FetchPublish("jobC")
  \/ \E d \in Clients : DispatchCheck(d)
  \/ \E d \in Clients : DispatchIter(d)
  \/ \E d \in Clients : DispatchNext(d)
  \/ \E d \in Clients : DispatchPost(d)
  \/ \E c \in Clients, route \in CycloneRoutes : ClientRequest(c, route)
  \/ \E c \in Clients : ClientJsonify(c)
  \/ \E c \in Clients : TriggerRespond(c)
  \/ \E c \in Clients : ClientDone(c)

CycloneSpec == Init /\ [][CycloneNext]_vars

(***************************************************************************)
(* The seismic store with every answer of its provider: job jobE, and one   *)
(* request thread reading the store.                                        *)
(***************************************************************************)
SeismicNext ==
  \/ MainStartScheduler
  \/ MainCallFetch
  \/ MainFetchReturn
  \/ Tick("jobE")
  \/ JobFinish("jobE")
  \/ FetchRespond("main", {TransportError})
  \/ FetchRespond("jobE", Responses("earthquake"))
  \/ FetchLoop("jobE")
  \/ FetchPublish("jobE")
  \/ \E c \in Clients : ClientRequest(c, "get_earthquake_data")
  \/ \E c \in Clients : ClientJsonify(c)
  \/ \E c \in Clients : ClientDone(c)

SeismicSpec == Init /\ [][SeismicNext]_vars

(***************************************************************************)
(* What the specification says of the snapshot store and of the fetch jobs. *)
(***************************************************************************)
\* the records a read of the store of src returns
Snapshot(src) == heap[Latest(src)]
IsPrefix(s, t) == Len(s) <= Len(t) /\ \A i \in 1..Len(s) : s[i] = t[i]

\* C1: for each source and any interleaving of fetch jobs with reads by
\* get_earthquake_data, get_cyclone_data and send_data_to_model, every read
\* returns exactly the complete record list installed by the most recent
\* completed replace of that source (the initial empty list if there is none):
\* the store always holds that list, a request thread serializes the list it
\* read, and the dispatcher sends the records of the list it read, in order.
ReadsReturnTheInstalledSnapshot ==
  /\ \A src \in Sources : Snapshot(src) = installed[src]
  /\ \A c \in Clients :
       /\ cpc[c] = "jsonify" => heap[cref[c]] = cwant[c]
       /\ cpc[c] = "responded" /\ croute[c] # "send_to_model" => cbody[c] = JArr(cwant[c])
  /\ \A d \in Dispatchers :
       /\ dpc[d] \in {"next", "post"} =>
            heap[diter[d]] = dwant[d] /\ dsent[d] = SubSeq(dwant[d], 1, didx[d])
       /\ dpc[d] = "returned" => IsPrefix(dsent[d], dwant[d])

\* a request thread has answered with the records installed before, while a
\* fetch job of the same source is in the middle of building its next list
ReadDuringBuild ==
  \E c \in Clients, r \in Runners :
    /\ cpc[c] = "responded" /\ croute[c] # "send_to_model"
    /\ cbody[c] = JArr(cwant[c]) /\ cwant[c] # <<>>
    /\ fpc[r] = "loop" /\ Source(r) = RouteSource(croute[c])
    /\ Len(heap[fext[r]]) < Len(Items(Source(r), fresp[r]))

\* the step in which the invocation of r ends in a failure of one of kinds
FetchFails(r, kinds) ==
  /\ fpc[r] \in {"request", "loop"}
  /\ fpc'[r] = "returned"
  /\ flog'[r] \in kinds
\* a non-200 status, and requests.get raising
ProviderDown == {"http error", "ConnectionError"}

\* C2: when a fetch job fails because the provider answers a non-200 status
\* or the request raises a transport error, the snapshot of its source after
\* the job is the snapshot before it: neither cleared nor partially overwritten.
FailedFetchKeepsSnapshot ==
  [][\A r \in Runners :
       FetchFails(r, ProviderDown) =>
         /\ Snapshot(Source(r))' = Snapshot(Source(r))
         /\ installed' = installed]_vars

\* both kinds of failure have happened to jobs whose stores hold records
StaleSnapshotRetained ==
  /\ fpc["jobE"] = "returned" /\ flog["jobE"] = "http error"
  /\ fpc["jobC"] = "returned" /\ flog["jobC"] = "ConnectionError"
  /\ Snapshot("earthquake") # <<>> /\ Snapshot("cyclone") # <<>>

\* every way a fetch invocation can end without publishing
FailureKinds ==
  {"http error", "ConnectionError", "JSONDecodeError", "KeyError", "TypeError",
   "AttributeError", "IndexError", "job raised"}
\* the cyclone side of the process
CycloneState ==
  <<latest_cyclone_data, Snapshot("cyclone"), installed["cyclone"],
    fpc["jobC"], fresp["jobC"], flog["jobC"]>>

\* C3: in any round, the startup one included, a failure of the seismic fetch
\* neither prevents nor alters the cyclone update: the failing step leaves
\* the cyclone store and the cyclone job as they are and the process alive,
\* the main thread goes on from its seismic run to its cyclone run, and a
\* cyclone fetch the provider answers well installs exactly the records of
\* that answer.
SeismicFailureSparesCyclone ==
  [][/\ \A r \in Runners :
          Source(r) = "earthquake" /\ FetchFails(r, FailureKinds) =>
            /\ CycloneState' = CycloneState
            /\ mainpc' = mainpc
     /\ mainpc = "main_eq" /\ mainpc' # mainpc => mainpc' = "main_cy"
     /\ \A r \in Runners :
          /\ Source(r) = "cyclone" /\ fpc[r] = "loop" /\ fpc'[r] = "returned"
          /\ \A i \in 1..Len(Items("cyclone", fresp[r])) :
                StormException(Items("cyclone", fresp[r])[i]) = NoException
          => /\ flog'[r] = "updated"
             /\ Snapshot("cyclone")' = NormalizeAll("cyclone", Items("cyclone", fresp[r]))]_vars

\* at startup no seismic fetch has succeeded and the main thread's cyclone
\* run has just installed records; a scheduled seismic run has failed too
CycloneUpdatedAfterSeismicFailure ==
  /\ mainpc = "main_cy" /\ fpc["main"] = "returned" /\ flog["main"] = "updated"
  /\ installed["earthquake"] = <<>> /\ Snapshot("cyclone") # <<>>
  /\ fpc["jobE"] = "returned" /\ flog["jobE"] \in FailureKinds

(***************************************************************************)
(* What the specification says of the dispatcher and of its trigger.        *)
(***************************************************************************)
\* the invocation of d went past the test of line 132
Dispatched(d) == dpc[d] = "returned" /\ dout[d] # <<NoData>>
\* the sends of d that failed: the post raised, or its status is not 2xx
IsFailure(line) ==
  line.printed # "sent" \/ line.status_code < 200 \/ line.status_code >= 300
Failures(d) == {i \in 1..Len(dout[d]) : IsFailure(dout[d][i])}

\* C4: one invocation of the dispatcher on a non-empty cyclone snapshot of n
\* records attempts exactly one send for each of the n records, in snapshot
\* order, whichever sends fail; a failed send neither ends the loop nor
\* leaves send_data_to_model as an exception, so that the trigger route
\* answers its message.
DispatcherSendsEveryRecord ==
  /\ \A d \in Dispatchers :
       /\ \A i \in 1..Len(dout[d]) : dout[d][i] # Uncaught
       /\ dpc[d] = "next" => dsent[d] = SubSeq(dwant[d], 1, Len(dout[d]))
       /\ dpc[d] = "post" => dsent[d] = SubSeq(dwant[d], 1, Len(dout[d]) + 1)
       /\ Dispatched(d) => dsent[d] = dwant[d] /\ Len(dout[d]) = Len(dwant[d])
  /\ \A c \in Clients :
       cpc[c] = "responded" /\ croute[c] = "send_to_model" => cbody[c] = SentMessage

\* the trigger route has answered after an invocation that sent two records,
\* the first send raising and the second refused by the model service
BothSendsFailedAllAttempted ==
  \E c \in Clients :
    /\ cpc[c] = "responded" /\ croute[c] = "send_to_model"
    /\ Len(dwant[c]) = MaxItems /\ dsent[c] = dwant[c] /\ dwant[c][1] # dwant[c][2]
    /\ dout[c][1] = Printed(TransportError)
    /\ dout[c][2] = Printed(Http(HttpServerError, InvalidJson))

\* C5: trigger_dispatch returns to its caller a summary (attempted, failed):
\* attempted is the number of records of the cyclone snapshot it dispatched,
\* failed the number of those sends that raised a transport error or got a
\* non-2xx response.
TriggerReturnsSummary ==
  \A c \in Clients :
    cpc[c] = "responded" /\ croute[c] = "send_to_model" =>
      cbody[c] = JObj([attempted |-> JNum(Len(dsent[c])),
                       failed |-> JNum(Cardinality(Failures(c)))])

(***************************************************************************)
(* What the specification says of the scheduling of the jobs.               *)
(***************************************************************************)
\* the invocations of send_data_to_model under way
Dispatching == {d \in Dispatchers : dpc[d] \notin {"idle", "returned"}}
\* the invocations of the fetch job of src under way
Fetching(src) == {r \in Runners : fpc[r] \notin {"idle", "returned"} /\ Source(r) = src}

\* C6: the same job never runs twice at a time: in every reachable state at
\* most one invocation of fetch_earthquake_data is under way, at most one of
\* fetch_cyclone_data and at most one of send_data_to_model, the scheduled
\* runs, the initial runs and the runs of /send_to_model counted alike.
OneInvocationPerJob ==
  /\ \A src \in Sources : Cardinality(Fetching(src)) <= 1
  /\ Cardinality(Dispatching) <= 1

\* a run of a job the scheduler started is under way
JobRunning(j) == Instances(j) > 0

\* C7: at startup both initial runs have completed before the first request
\* is accepted and before any scheduled job runs: as long as the main thread
\* has not reached app.run, no request thread serves and no job runs.
InitialRunsComeFirst ==
  mainpc # "serving" =>
    /\ \A c \in Clients : cpc[c] = "idle"
    /\ \A j \in Jobs : ~JobRunning(j)

(***************************************************************************)
(* Fair scheduling: every thread that can take a step eventually takes it,  *)
(* the scheduler's timer fires every ten minutes, and the providers and the *)
(* model service eventually answer or fail every call made to them.         *)
(***************************************************************************)
\* the process when no request arrives: the main thread and the three jobs
JobsNext ==
  \/ MainStartScheduler
  \/ MainCallFetch
  \/ MainFetchReturn
  \/ \E j \in Jobs : Tick(j)
  \/ \E j \in Jobs : JobFinish(j)
  \/ \E r \in Runners : FetchRespond(r, Answers(Source(r)))
  \/ \E r \in Runners : FetchLoop(r)
  \/ \E r \in Runners : FetchPublish(r)
  \/ DispatchCheck(0)
  \/ DispatchIter(0)
  \/ DispatchNext(0)
  \/ DispatchPost(0)

\* the steps of the main thread
MainStep == MainStartScheduler \/ MainCallFetch \/ MainFetchReturn
\* the steps of job j: the scheduler starts a run of it, and its pool thread
\* runs it to its end
JobStep(j) ==
  \/ Tick(j)
  \/ JobFinish(j)
  \/ j # "jobD" /\ (FetchRespond(j, Answers(Source(j))) \/ FetchLoop(j) \/ FetchPublish(j))
  \/ j = "jobD" /\ (DispatchCheck(0) \/ DispatchIter(0) \/ DispatchNext(0) \/ DispatchPost(0))

Fairness ==
  /\ WF_vars(MainStep \/ FetchRespond("main", Answers(Source("main")))
                       \/ FetchLoop("main") \/ FetchPublish("main"))
  /\ \A j \in Jobs : WF_vars(JobStep(j))

FairSpec == Init /\ [][JobsNext]_vars /\ Fairness

\* no run of job j is under way
Idle(j) == Instances(j) = 0
\* a run of job j has just been started
Starts(j) == IF j = "jobD" THEN dpc[0] = "check" ELSE fpc[j] = "request"
\* a run of job j has ended in a failure
Failed(j) ==
  IF j = "jobD"
  THEN dpc[0] = "returned" /\ Failures(0) # {}
  ELSE fpc[j] = "returned" /\ flog[j] \in FailureKinds

ItemsKey(src) == IF src = "earthquake" THEN "features" ELSE "activeStorms"
\* the body is an object that lists items under the key of its source
WellShaped(src, body) == Has(body, ItemsKey(src)) /\ body.members[ItemsKey(src)].type = "array"
\* the exceptions a body or an item of an unexpected shape raises
ShapeErrors == {"JSONDecodeError", "KeyError", "TypeError", "AttributeError", "IndexError"}

\* C9: a 200 answer of a malformed or unexpected JSON shape is a fetch
\* failure for either source: the invocation that got it, whether it raised
\* on the shape or went through its loop over a body that does not list
\* items under the expected key, leaves the snapshot of its source as it was.
MalformedAnswerKeepsSnapshot ==
  [][\A r \in Runners :
       /\ fpc[r] \in {"request", "loop"} /\ fpc'[r] = "returned"
       /\ \/ flog'[r] \in ShapeErrors
          \/ fpc[r] = "loop" /\ ~WellShaped(Source(r), fresp[r].body)
       => Snapshot(Source(r))' = Snapshot(Source(r))]_vars

\* the provider key each flat field of a seismic record is read from
SeismicKeys ==
  [time |-> "time", updated |-> "updated", magnitude |-> "mag", mag_type |-> "magType",
   magnitude_error |-> "magError", depth_error |-> "depthError",
   seismic_stations |-> "nst", rms |-> "rms", gap |-> "gap", dmin |-> "dmin",
   tsunami_warning |-> "alert", event_type |-> "type", status |-> "status", url |-> "url"]
FocalKeys == [strike |-> "strike", dip |-> "dip", rake |-> "rake"]
SeismicSchema ==
  DOMAIN SeismicKeys \cup
    {"id", "latitude", "longitude", "depth_km", "location", "region",
     "focal_mechanism", "tsunami_alert"}
\* the provider key each field of a cyclone record is read from
CycloneKeys ==
  [ISO_TIME |-> "lastUpdate", LAT |-> "latitude_numeric", LON |-> "longitude_numeric",
   STORM_SPEED |-> "movementSpeed", STORM_DIR |-> "movementDir"]
\* the fields of rec read from the keys that obj lacks hold the sentinel
AbsentAreNA(rec, obj, keys) ==
  \A f \in DOMAIN keys : ~Has(obj, keys[f]) => rec.members[f] = NA
\* rec, normalized from item, has every field of its schema
Complete(src, item, rec) ==
  IF src = "earthquake"
  THEN /\ DOMAIN rec.members = SeismicSchema
       /\ DOMAIN rec.members["focal_mechanism"].members = DOMAIN FocalKeys
       /\ AbsentAreNA(rec, item, [id |-> "id"])
       /\ AbsentAreNA(rec, item.members["properties"], SeismicKeys)
       /\ AbsentAreNA(rec.members["focal_mechanism"], item.members["properties"], FocalKeys)
  ELSE /\ DOMAIN rec.members = DOMAIN CycloneKeys
       /\ AbsentAreNA(rec, item, CycloneKeys)

\* C10: every normalized record, seismic or cyclone, has every field of its
\* schema as a key, and every field absent from the provider item holds the
\* sentinel "N/A", never null: each record a fetch job has built is complete
\* with respect to the item it was built from.
RecordsAreComplete ==
  \A r \in Runners :
    fpc[r] = "loop" =>
      \A i \in 1..Len(heap[fext[r]]) :
        Complete(Source(r), Items(Source(r), fresp[r])[i], heap[fext[r]][i])

(***************************************************************************)
(* The store before its first successful fetch.                            *)
(***************************************************************************)
\* the get route of a source
GetRoute(src) == IF src = "earthquake" THEN "get_earthquake_data" ELSE "get_cyclone_data"
GetRoutes == {GetRoute(src) : src \in Sources}

\* C11: both snapshots exist and are empty from the start of the process;
\* as long as no fetch of a source has succeeded, whatever fetches of it have
\* failed, the snapshot of the source is the empty sequence, and a get that
\* read it is answered with the empty array, never with an error.
EmptyBeforeFirstSuccess ==
  /\ \A src \in Sources :
       /\ Latest(src) \in Cells
       /\ ~replaced[src] => Snapshot(src) = <<>> /\ installed[src] = <<>>
  /\ \A c \in Clients :
       cpc[c] = "responded" /\ croute[c] \in GetRoutes =>
         /\ cbody[c].type = "array"
         /\ cwant[c] = <<>> => cbody[c] = JArr(<<>>)

\* a get of the seismic data answered with the empty array after the only
\* fetches of that source, the initial one included, have failed
EmptyAfterFailedFetches ==
  \E c \in Clients :
    /\ cpc[c] = "responded" /\ croute[c] = "get_earthquake_data"
    /\ cbody[c] = JArr(<<>>)
    /\ ~replaced["earthquake"]
    /\ fpc["jobE"] = "returned" /\ flog["jobE"] \notin {"", "updated"}

(***************************************************************************)
(* What a successful replace leaves in the store.                          *)
(***************************************************************************)
\* everything the process keeps about a source: the list its global refers
\* to (line 16 / line 17); no replace time and no outcome is kept
Store(src) == [records |-> Snapshot(src)]
\* runner r ends a successful fetch (line 96-97 / line 123-124) in this step
Replaces(r) == fpc[r] = "loop" /\ fpc'[r] = "returned" /\ flog'[r] = "updated"

\* C12: a successful fetch of n items replaces the snapshot of its source
\* with exactly n normalized records, one per item in provider order; for
\* n = 0 the snapshot becomes empty and the store is left in a state that
\* differs from the one a failed fetch, which retains the store as it was,
\* would have left.
ReplaceIsDistinguishable ==
  [][\A r \in Runners :
       Replaces(r) =>
         LET items == Items(Source(r), fresp[r])
         IN /\ Len(Snapshot(Source(r))') = Len(items)
            /\ Snapshot(Source(r))' = NormalizeAll(Source(r), items)
            /\ Len(items) = 0 => Store(Source(r))' # Store(Source(r))]_vars

\* the part of C12 on the records alone
ReplaceHoldsTheRecords ==
  [][\A r \in Runners :
       Replaces(r) =>
         LET items == Items(Source(r), fresp[r])
         IN /\ Len(Snapshot(Source(r))') = Len(items)
            /\ Snapshot(Source(r))' = NormalizeAll(Source(r), items)]_vars

(***************************************************************************)
(* The get routes are reads.                                               *)
(***************************************************************************)
\* request thread c takes a step of a get route: it reads the global or it
\* serializes the list it read
GetStep(c) ==
  \/ cpc[c] = "idle" /\ cpc'[c] = "jsonify"
  \/ cpc[c] = "jsonify" /\ cpc'[c] = "responded"

\* C13: a get has no side effect and is idempotent: no step of a get route
\* changes either snapshot, and a get answered from the current snapshot of
\* its source, when the last get of that source was answered with no
\* successful fetch of it since, returns the same sequence as that get did.
GetIsIdempotent ==
  [][\A c \in Clients :
       GetStep(c) =>
         /\ \A src \in Sources : Snapshot(src)' = Snapshot(src)
         /\ installed' = installed /\ replaced' = replaced
         /\ /\ cpc[c] = "jsonify"
            /\ lastget.route = croute[c]
            /\ cref[c] = Latest(RouteSource(croute[c]))
            => cbody'[c] = lastget.body]_vars

\* a second get of the cyclone data, with no replace since the first, has
\* been answered with the one record the first returned
SecondGetAnswered ==
  \E c \in Clients :
    /\ cpc[c] = "responded" /\ croute[c] = "get_cyclone_data"
    /\ lastget.again /\ lastget.body = cbody[c]
    /\ cbody[c] = JArr(installed["cyclone"]) /\ installed["cyclone"] # <<>>

(***************************************************************************)
(* The region of a seismic record (lines 44-49), over every place string   *)
(* of a small alphabet: job jobE answered with one feature of that place.  *)
(***************************************************************************)
PlaceChars == {",", " ", "a"}
Places == SeqsUpTo(PlaceChars, MaxPlaceLen)
\* a feature with nothing but its coordinates and, possibly, a place
FeatNoPlace ==
  JObj([
    properties |-> JObj([mag |-> JNum(4)]),
    geometry |-> JObj([coordinates |-> JArr(<<JNum(30), JNum(40), JNum(6)>>)]) ])
FeatPlace(p) ==
  JObj([
    properties |-> JObj([place |-> JStr(p)]),
    geometry |-> JObj([coordinates |-> JArr(<<JNum(30), JNum(40), JNum(6)>>)]) ])
PlaceAnswers ==
  {TransportError}
    \cup {Http(HttpOk, JObj([features |-> JArr(<<f>>)])) :
            f \in {FeatNoPlace} \cup {FeatPlace(p) : p \in Places}}

RegionNext ==
  \/ MainStartScheduler
  \/ MainCallFetch
  \/ MainFetchReturn
  \/ Tick("jobE")
  \/ JobFinish("jobE")
  \/ FetchRespond("main", {TransportError})
  \/ FetchRespond("jobE", PlaceAnswers)
  \/ FetchLoop("jobE")
  \/ FetchPublish("jobE")

RegionSpec == Init /\ [][RegionNext]_vars

\* the positions in s where ", " begins
SeparatorsIn(s) == {i \in 1..(Len(s) - 1) : s[i] = "," /\ s[i + 1] = " "}
\* the substring of s after its final ", ", or s when it has none
AfterFinalSeparator(s) ==
  IF SeparatorsIn(s) = {} THEN s
  ELSE LET i == CHOOSE k \in SeparatorsIn(s) : \A m \in SeparatorsIn(s) : m <= k
       IN SubSeq(s, i + 2, Len(s))

\* C14: the region of a seismic record is the substring of the place after
\* its final ", " when the place contains the separator, and the whole place
\* otherwise: every record a fetch has built from an item holds that region.
RegionIsAfterFinalSeparator ==
  \A r \in Runners :
    fpc[r] = "loop" /\ Source(r) = "earthquake" =>
      \A i \in 1..Len(heap[fext[r]]) :
        LET place == Place(Items("earthquake", fresp[r])[i].members["properties"])
        IN /\ heap[fext[r]][i].members["location"] = place
           /\ heap[fext[r]][i].members["region"] = JStr(AfterFinalSeparator(place.chars))

\* a record built from a place with two separators, whose region is what
\* follows the second
RegionOfTwoSeparators ==
  /\ fpc["jobE"] = "loop" /\ Len(heap[fext["jobE"]]) = 1
  /\ LET place == Place(Items("earthquake", fresp["jobE"])[1].members["properties"])
     IN /\ Cardinality(SeparatorsIn(place.chars)) = 2
        /\ heap[fext["jobE"]][1].members["region"] = JStr(AfterFinalSeparator(place.chars))
        /\ heap[fext["jobE"]][1].members["region"] # place

(***************************************************************************)
(* The jobs when the network may never answer: the threads of the process  *)
(* are scheduled fairly, but requests.get (lines 34, 108) and              *)
(* requests.post (line 138), called without a timeout, return only when    *)
(* the other side answers or the connection fails.                         *)
(***************************************************************************)
\* the steps of job j that wait for nothing outside the process
ThreadStep(j) ==
  \/ Tick(j)
  \/ JobFinish(j)
  \/ j # "jobD" /\ (FetchLoop(j) \/ FetchPublish(j))
  \/ j = "jobD" /\ (DispatchCheck(0) \/ DispatchIter(0) \/ DispatchNext(0))

ThreadFairness ==
  /\ WF_vars(MainStep \/ FetchLoop("main") \/ FetchPublish("main"))
  /\ \A j \in Jobs : WF_vars(ThreadStep(j))

StallSpec == Init /\ [][JobsNext]_vars /\ ThreadFairness

\* C15: every outbound call is bounded, so every started invocation of a
\* fetch, scheduled or initial, and of the dispatcher eventually completes,
\* whether or not the provider or the sink ever answers.
EveryInvocationCompletes ==
  /\ \A r \in Runners : (fpc[r] = "request") ~> (fpc[r] = "returned")
  /\ (dpc[0] = "check") ~> (dpc[0] = "returned")

(***************************************************************************)
(* The jobs when the seismic provider may never answer, while the cyclone  *)
(* provider and the model sink always answer or fail.                      *)
(***************************************************************************)
CycloneAnswered ==
  /\ WF_vars(FetchRespond("jobC", Answers("cyclone")))
  /\ WF_vars(mainpc = "main_cy" /\ FetchRespond("main", Answers("cyclone")))
  /\ WF_vars(DispatchPost(0))

SeismicStallSpec == Init /\ [][JobsNext]_vars /\ ThreadFairness /\ CycloneAnswered

\* the initial cyclone fetch (line 166) has been called
InitialCycloneStarted == mainpc = "main_cy" /\ fpc["main"] # "idle"
\* the initial cyclone fetch has returned
InitialCycloneDone == mainpc = "serving"

\* the part of C16 on the scheduled runs: whatever the seismic fetch does,
\* the cyclone fetch and the dispatcher are started and come to rest again
\* and again
ScheduledJobsAreIndependent ==
  \A k \in {"jobC", "jobD"} : []<>Starts(k) /\ []<>Idle(k)

\* C16: the jobs do not block each other: whether the seismic fetch is
\* slow, stalled or failed, the scheduled cyclone fetch and dispatcher are
\* started and complete again and again, and at startup the initial cyclone
\* fetch is started and completes.
JobsDoNotBlockEachOther ==
  /\ \A k \in {"jobC", "jobD"} : []<>Idle(k) /\ []<>Starts(k)
  /\ <>InitialCycloneStarted
  /\ <>InitialCycloneDone

(***************************************************************************)
(* The dispatcher on an empty cyclone snapshot.                            *)
(***************************************************************************)
\* invocation d of send_data_to_model found the snapshot empty at line 132
FoundNoData(d) == dout[d] = <<NoData>>

\* the part of C17 on the sends: an invocation that found the snapshot
\* empty has issued no send
EmptySnapshotSendsNothing ==
  \A d \in Dispatchers : FoundNoData(d) => dsent[d] = <<>> /\ dpc[d] \in {"returned", "idle"}

\* C17: a dispatcher that reads an empty cyclone snapshot issues no send and
\* reports a no-op to its caller, the caller of the trigger endpoint
\* included: the answer of /send_to_model is then neither an error nor the
\* message that the data was sent.
EmptySnapshotIsNoOp ==
  /\ \A d \in Dispatchers : FoundNoData(d) => dsent[d] = <<>>
  /\ \A c \in Clients :
       cpc[c] = "responded" /\ croute[c] = "send_to_model" /\ FoundNoData(c) =>
         cbody[c] \notin {SentMessage, InternalServerError}

(***************************************************************************)
(* Published lists are never mutated.                                      *)
(***************************************************************************)
\* C18: a published record list is never mutated in place: the list a
\* request thread or a dispatcher holds a reference to stays as it was
\* read, and the list a global refers to changes only by a replace.  An
\* invocation of send_data_to_model iterates the list that is the published
\* cyclone snapshot when line 136 reads the global, and, whatever replaces
\* interleave with it, sends exactly the records of that list, in order.
PublishedListsAreImmutable ==
  [][/\ \A c \in Clients :
          cref[c] # NoCell /\ cref'[c] # NoCell => heap'[cref'[c]] = heap[cref[c]]
     /\ \A d \in Dispatchers :
          /\ diter[d] # NoCell /\ diter'[d] # NoCell => heap'[diter'[d]] = heap[diter[d]]
          /\ dpc[d] = "iter" /\ dpc'[d] = "next" =>
               heap'[diter'[d]] = Snapshot("cyclone") /\ dwant'[d] = Snapshot("cyclone")
          /\ dpc[d] = "next" /\ dpc'[d] = "post" =>
               dsent'[d] = SubSeq(dwant[d], 1, Len(dsent[d]) + 1)
          /\ dpc[d] = "next" /\ dpc'[d] = "returned" => dsent[d] = dwant[d]
     /\ \A src \in Sources :
          Snapshot(src)' # Snapshot(src) =>
            \E r \in Runners : Replaces(r) /\ Source(r) = src]_vars

\* a dispatcher has sent the second record of the list it read although the
\* cyclone snapshot has been replaced by another list since
SendsFromReplacedSnapshot ==
  \E d \in Dispatchers :
    /\ dpc[d] = "post" /\ didx[d] = 2
    /\ Snapshot("cyclone") # heap[diter[d]]
    /\ dsent[d] = heap[diter[d]] /\ dsent[d] = dwant[d]

(***************************************************************************)
(* Each snapshot has one writer.                                           *)
(***************************************************************************)
\* runner r takes a step of its fetch function: it moves on, or it appends
\* to the list it is building
FetchStep(r) ==
  \/ fpc'[r] # fpc[r]
  \/ fext[r] # NoCell /\ fext'[r] # NoCell /\ heap'[fext'[r]] # heap[fext[r]]
\* the snapshot of src, as a list object's content and as history, is left alone
Untouched(src) ==
  /\ Snapshot(src)' = Snapshot(src)
  /\ installed'[src] = installed[src]
  /\ replaced'[src] = replaced[src]

\* C19: each snapshot has exactly one writer.  The snapshot of a source
\* changes only in the step that ends a successful fetch of that source; a
\* step of a fetch function, successful or not, leaves the snapshot of the
\* other source alone, and every step of send_data_to_model, of
\* trigger_model_send and of the two get routes leaves both alone.
SnapshotHasOneWriter ==
  [][/\ \A src \in Sources :
          ~Untouched(src) => \E r \in Runners : Replaces(r) /\ Source(r) = src
     /\ \A r \in Runners :
          FetchStep(r) =>
            \A src \in Sources : src # Source(r) \/ ~Replaces(r) => Untouched(src)
     /\ \A d \in Dispatchers :
          dpc'[d] # dpc[d] \/ dsent'[d] # dsent[d] => \A src \in Sources : Untouched(src)
     /\ \A c \in Clients :
          cpc'[c] # cpc[c] => \A src \in Sources : Untouched(src)]_vars

\* the cyclone fetch has replaced its snapshot and the seismic fetch has
\* failed, and the earthquake snapshot still holds the record of the initial
\* fetch
CycloneReplacedSeismicKept ==
  /\ fpc["jobC"] = "returned" /\ flog["jobC"] = "updated"
  /\ fpc["jobE"] = "returned" /\ flog["jobE"] \notin {"", "updated"}
  /\ Snapshot("cyclone") # <<>> /\ Snapshot("earthquake") # <<>>
  /\ Snapshot("earthquake") # Snapshot("cyclone")
  /\ \E c \in Clients : cpc[c] = "responded" /\ croute[c] = "send_to_model"

=============================================================================
